---- MODULE Spec2Model ----
(***************************************************************************)
(* Model of two components of wakey.                                       *)
(*                                                                         *)
(* The delayed-job scheduler Sched (src/unnamed/part_009). One timer       *)
(* object is created by every Schedule call (time.AfterFunc); a fired      *)
(* timer runs its body in a goroutine of its own, which sends the job id   *)
(* on the bounded channel jobCh; the dispatch loop run() receives ids and  *)
(* calls fn(id), then deletes entries[id] under the mutex.                 *)
(*                                                                         *)
(* The conversation store StateManager                                     *)
(* (src/internal/wakey/state_manager.go): a map from user to *UserData     *)
(* under a mutex, a background sweep, and ImportStates / ExportStates,     *)
(* which copy records. UserData objects live in a heap, so that a pointer  *)
(* shared by the store and a caller is one object seen from both sides.    *)
(***************************************************************************)
EXTENDS Integers, Sequences, FiniteSets, TLC

\* ---- bounds of the model ----
NumIds == 2
MaxTime == 1
MaxTimers == 3
MaxCap == 1
MaxStarts == 1
MaxFairTimers == 2
NumUsers == 2
MaxState == 1
MaxPlans == 1
MaxAge == 1
MaxStoreTime == 2
MaxSubs == 2
MaxBuf == 2
MaxEvents == 3
NumPubs == 2
MaxCalls == 2
MaxMainTimers == 2
MaxClock == 6
MaxInterval == 3
\* time.Hour, in units of the ticker's clock
Hour == 2

Ids == 1..NumIds
Times == 0..MaxTime
Loops == 1..MaxStarts
Users == 1..NumUsers
UserStates == 0..MaxState
PlansValues == 0..MaxPlans
Ages == 0..MaxAge
StoreTimes == 0..MaxStoreTime
SubIds == 1..MaxSubs
BufSizes == 1..MaxBuf
Events == 1..MaxEvents
Pubs == 1..NumPubs
\* the cleanupInterval values passed to Start: negative, zero, below and
\* above one hour
Intervals == -1..MaxInterval

VARIABLES
    now,        \* wall clock (time.Now)
    cap,        \* capacity of jobCh, the maxScheduled argument of NewSched
    timers,     \* the *time.Timer objects, in order of creation
    entries,    \* s.entries: JobID -> index of its timer, 0 when there is no key
    entriesNil, \* s.entries = nil (after Stop)
    jobCh,      \* content of s.jobCh; an element t stands for the id timers[t].id
    doneClosed, \* s.done is closed
    stopPc,     \* position of the caller of Stop: "no", "closing", "stopped"
    mu,         \* s.mu: 0 free, l when held by dispatch loop l
    pc,         \* position of each run() goroutine
    cur,        \* the timer whose id run() received last
    running,    \* number of invocations of s.fn in progress
    reent,      \* the callback in progress has called Schedule or Cancel
    log,        \* the timers whose id was passed to s.fn, in order of invocation
    panicked    \* a call of Schedule has panicked in its caller

\* the conversation store StateManager (src/internal/wakey/state_manager.go)
VARIABLES
    heap,        \* the UserData objects, by address
    states,      \* sm.states: user -> address of its *UserData, 0 when no key
    ticker,      \* sm.ticker: "nil", "on" or "stopped"
    tickPending, \* a tick is waiting in sm.ticker.C
    sweeper,     \* the cleanupRoutine goroutine: "off", "run" (in its select),
                 \* "cleaning" (calling CleanupOldStates), "locked" (in it,
                 \* holding sm.mutex), "exited"
    sweepAge,    \* the maxAge argument of Start, held by cleanupRoutine
    isStopped,   \* sm.isStopped (set by the one effective Stop, with close(sm.done))
    cmap,        \* a map[int64]*UserData held by the caller: user -> address
    cmapKind,    \* where the caller's map comes from and whether it was changed since
    ptr,         \* a *UserData held by a handler, 0 when nil
    ret          \* what the last call of the store returned

\* ---- the notification hub (SubscriptionManager) ----
VARIABLES
    subs,        \* the listeners in order of Subscribe (listener i has id i-1):
                 \* buf and q are the capacity and content of its channel,
                 \* open: the channel is not closed, member: its id is a key
                 \* of sm.subs, unsub: its unsubscribe closure has returned;
                 \* calls and closes count the calls of the closure and the
                 \* close(ch) executed on the channel;
                 \* history: got and lost are the events sent to and dropped
                 \* for it, since and till the number of events published
                 \* when it was subscribed and removed
    pubs,        \* the calls of Notify in progress: the event and the
                 \* listeners the loop has still to visit; ev = 0 when idle
    nextEv       \* the number of events published so far (calls of Notify)

schedVars == <<now, cap, timers, entries, entriesNil, jobCh, doneClosed, stopPc,
               mu, pc, cur, running, reent, log, panicked>>

smVars == <<heap, states, ticker, tickPending, sweeper, sweepAge, isStopped,
            cmap, cmapKind, ptr, ret>>

hubVars == <<subs, pubs, nextEv>>

\* ---- a subscriber of the hub (ToxicityChecker) ----
VARIABLE
    tc           \* sub: its listener (0 before NewToxicityChecker); quit:
                 \* tc.quit is closed; stop: how far Stop has got; pc: the
                 \* goroutine processNewWishes; wish: the *Wish it received,
                 \* an event or 0 for nil

\* ---- the ticker of the store in time ----
VARIABLE
    tk           \* the ticker made by Start and its reader, on a clock:
                 \* interval: the cleanupInterval passed to Start; period: the
                 \* d of time.NewTicker; next: when the next tick is due;
                 \* pend: a tick is in the channel; pc: cleanupRoutine, in
                 \* its select or calling CleanupOldStates;
                 \* history: lastTick and lastSweep are the times of the last
                 \* tick put into the channel and of the last sweep (-1:
                 \* none), ticks and sweeps count them

vars == <<schedVars, smVars, hubVars, tc, tk>>

JobIdOf(t) == timers[t].id

TimerIds == 1..Len(timers)

Armed(t) == timers[t].st = "armed"

Queued(t) == \E i \in 1..Len(jobCh) : jobCh[i] = t

\* fired, id not yet passed to fn
InFlight(t) == timers[t].st = "firing" \/ Queued(t)

Invocations(t) == Cardinality({i \in 1..Len(log) : log[i] = t})

Invoked(t) == Invocations(t) > 0

\* ---- the heap of UserData objects ----
\* Addresses are abstract: after every step the objects still referred to are
\* renumbered in the order store, caller's map, pointer, and the others are
\* reclaimed, so two states differ only by what the program can observe.
Addrs == 1..(3 * NumUsers + 1)

\* UserData{}: the zero value; also the content of an address not in use
ZeroRec == [State |-> 0, Plans |-> 0, LastUpdated |-> 0]

Records == [State : UserStates, Plans : PlansValues, LastUpdated : StoreTimes]

\* the addresses reachable from the store, the caller's map and the pointer
Roots(st, cm, p) ==
    ({st[u] : u \in Users} \cup {cm[u] : u \in Users} \cup {p}) \ {0}

\* new(UserData): the n-th of the addresses that nothing refers to
NewAddr(n) ==
    LET free == Addrs \ Roots(states, cmap, ptr)
    IN CHOOSE a \in free : Cardinality({b \in free : b < a}) = n - 1

\* the references of a state in a fixed order
RefSeq(st, cm, p) ==
    [i \in 1..(2 * NumUsers + 1) |->
        IF i <= NumUsers THEN st[i]
        ELSE IF i <= 2 * NumUsers THEN cm[i - NumUsers] ELSE p]

\* the number given to address a: its rank by first occurrence in refs
Renumber(a, refs) ==
    IF \A i \in DOMAIN refs : refs[i] # a THEN 0
    ELSE LET first == CHOOSE i \in DOMAIN refs :
                          refs[i] = a /\ \A j \in 1..(i - 1) : refs[j] # a
         IN Cardinality({refs[j] : j \in 1..(first - 1)} \ {0}) + 1

\* the next heap, store map, caller's map and pointer are h, st, cm and p
Commit(h, st, cm, p) ==
    LET refs == RefSeq(st, cm, p)
        num == [a \in Addrs |-> Renumber(a, refs)]
        live == Roots(st, cm, p)
    IN /\ states' = [u \in Users |-> IF st[u] = 0 THEN 0 ELSE num[st[u]]]
       /\ cmap' = [u \in Users |-> IF cm[u] = 0 THEN 0 ELSE num[cm[u]]]
       /\ ptr' = IF p = 0 THEN 0 ELSE num[p]
       /\ heap' = [n \in Addrs |->
                     IF n <= Cardinality(live)
                     THEN h[CHOOSE a \in live : num[a] = n]
                     ELSE ZeroRec]

\* for userID, userData := range src { c := *userData; dst[userID] = &c }:
\* the map of the fresh addresses
CopyMap(src) ==
    LET keys == {u \in Users : src[u] # 0}
    IN [u \in Users |->
          IF src[u] = 0 THEN 0
          ELSE NewAddr(Cardinality({v \in keys : v < u}) + 1)]

\* the heap after the records of src were copied to the addresses of dst
CopyHeap(src, dst) ==
    [a \in Addrs |->
        IF \E u \in Users : dst[u] = a
        THEN heap[src[CHOOSE u \in Users : dst[u] = a]]
        ELSE heap[a]]

\* what a map says: for every user its record, by value
View(m) == [u \in Users |-> IF m[u] = 0 THEN <<>> ELSE <<heap[m[u]]>>]

StoreView == View(states)

CallerView == View(cmap)

NoMap == [u \in Users |-> 0]

\* the last call of interest and its outcome: ImportStates and ExportStates
\* returned no error; Start, Stop and CleanupOldStates had an effect
Result(op, ok) == [op |-> op, ok |-> ok]

TypeOK ==
    /\ now \in Times \cup StoreTimes
    /\ cap \in 0..MaxCap
    /\ Len(timers) <= MaxTimers
    /\ \A t \in TimerIds :
          /\ timers[t].id \in Ids
          /\ timers[t].at \in Times
          /\ timers[t].st \in {"armed", "stopped", "firing", "sent"}
          /\ timers[t].sup \in {"none", "C_armed", "S_armed", "stale"}
    /\ entries \in [Ids -> 0..MaxTimers]
    /\ entriesNil \in BOOLEAN
    /\ Len(jobCh) <= cap
    /\ doneClosed \in BOOLEAN
    /\ stopPc \in {"no", "closing", "stopped"}
    /\ mu \in {0} \cup Loops
    /\ pc \in [Loops -> {"off", "idle", "calling", "locking", "deleting", "exited",
                       "panicked"}]
    /\ cur \in [Loops -> 0..MaxTimers]
    /\ running \in 0..MaxStarts
    /\ reent \in [Loops -> BOOLEAN]
    /\ panicked \in BOOLEAN
    /\ heap \in [Addrs -> Records]
    /\ states \in [Users -> {0} \cup Addrs]
    /\ ticker \in {"nil", "on", "stopped"}
    /\ tickPending \in BOOLEAN
    /\ sweeper \in {"off", "run", "cleaning", "locked", "exited"}
    /\ sweepAge \in Ages
    /\ isStopped \in BOOLEAN
    /\ cmap \in [Users -> {0} \cup Addrs]
    /\ cmapKind \in {"nil", "own", "imported", "imported_changed",
                     "exported", "exported_changed"}
    /\ ptr \in {0} \cup Addrs
    /\ ret.ok \in BOOLEAN
    /\ Len(subs) <= MaxSubs
    /\ \A i \in 1..Len(subs) :
          /\ subs[i].buf \in BufSizes
          /\ Len(subs[i].q) <= subs[i].buf
          /\ subs[i].open \in BOOLEAN /\ subs[i].member \in BOOLEAN
          /\ subs[i].unsub \in BOOLEAN
          /\ subs[i].calls \in 0..MaxCalls /\ subs[i].closes \in 0..MaxCalls
          /\ subs[i].lost \subseteq Events
          /\ subs[i].since \in 0..MaxEvents /\ subs[i].till \in 0..MaxEvents
    /\ \A p \in Pubs : pubs[p].ev \in 0..MaxEvents /\ pubs[p].todo \subseteq SubIds
    /\ nextEv \in 0..MaxEvents
    /\ tk.st \in {"off", "on", "panicked"}
    /\ tk.interval \in Intervals
    /\ tk.period \in 0..MaxInterval \cup {Hour}
    /\ tk.next \in 0..(MaxClock + MaxInterval + Hour)
    /\ tk.pend \in BOOLEAN
    /\ tk.pc \in {"off", "select", "cleaning"}
    /\ tk.clock \in 0..MaxClock
    /\ tk.lastTick \in -1..MaxClock
    /\ tk.lastSweep \in -1..MaxClock
    /\ tk.ticks \in 0..MaxClock
    /\ tk.sweeps \in 0..MaxClock
    /\ tc.sub \in 0..MaxSubs
    /\ tc.quit \in BOOLEAN
    /\ tc.stop \in {"no", "quit", "done"}
    /\ tc.pc \in {"off", "select", "parked", "checking", "exited", "panicked"}
    /\ tc.wish \in 0..MaxEvents

\* NewSched: empty map, open done channel, empty jobCh of the given capacity
Init ==
    /\ now = 0
    /\ cap \in 0..MaxCap
    /\ timers = <<>>
    /\ entries = [i \in Ids |-> 0]
    /\ entriesNil = FALSE
    /\ jobCh = <<>>
    /\ doneClosed = FALSE
    /\ stopPc = "no"
    /\ mu = 0
    /\ pc = [l \in Loops |-> "off"]
    /\ cur = [l \in Loops |-> 0]
    /\ running = 0
    /\ reent = [l \in Loops |-> FALSE]
    /\ log = <<>>
    /\ panicked = FALSE
    \* NewStateManager: empty map, no ticker, not stopped
    /\ heap = [a \in Addrs |-> ZeroRec]
    /\ states = NoMap
    /\ ticker = "nil"
    /\ tickPending = FALSE
    /\ sweeper = "off"
    /\ sweepAge = 0
    /\ isStopped = FALSE
    /\ cmap = NoMap
    /\ cmapKind = "nil"
    /\ ptr = 0
    /\ ret = Result("none", TRUE)
    \* NewSubscriptionManager: no listener
    /\ subs = <<>>
    /\ pubs = [p \in Pubs |-> [ev |-> 0, todo |-> {}]]
    /\ nextEv = 0
    /\ tc = [sub |-> 0, quit |-> FALSE, stop |-> "no", pc |-> "off", wish |-> 0]
    /\ tk = [st |-> "off", interval |-> 0, period |-> 0, next |-> 0,
             pend |-> FALSE, pc |-> "off", clock |-> 0, lastTick |-> -1,
             lastSweep |-> -1, ticks |-> 0, sweeps |-> 0]

\* An unrecovered panic in a goroutine ends the whole process: run has no
\* recover, so nothing runs any more once a dispatch loop has panicked.
Alive == \A l \in Loops : pc[l] # "panicked"

\* timer.Stop(): prevents the firing of a timer that has not fired yet and
\* has no effect on a timer whose function was already started
TimerStop(tm) ==
    IF tm.st = "armed" THEN [tm EXCEPT !.st = "stopped"] ELSE tm

\* History for the properties (the code has no such field): what the first
\* Schedule ("S") or Cancel ("C") call for the id of timer t that left t alive
\* found t doing: armed ("C_armed", "S_armed"), or fired with its id not yet
\* passed to fn ("stale"). tm is the timer after the call; nothing is recorded
\* for a timer the call stopped.
Superseded(tm, t, kind) ==
    IF tm.sup # "none" THEN tm
    ELSE IF tm.st = "armed" THEN [tm EXCEPT !.sup = kind \o "_armed"]
    ELSE IF InFlight(t) THEN [tm EXCEPT !.sup = "stale"]
    ELSE tm

\* Sched.Schedule, called by `who` (0: any other thread, l: the callback
\* running in dispatch loop l)
Schedule(at, id, who) ==
    /\ Alive
    /\ mu = 0
    /\ Len(timers) < MaxTimers
    /\ LET old == [t \in TimerIds |->
                     LET tm == IF ~entriesNil /\ entries[id] = t
                               THEN TimerStop(timers[t]) ELSE timers[t]
                     IN IF tm.id = id THEN Superseded(tm, t, "S") ELSE tm]
           timer == [id |-> id, at |-> at, st |-> "armed", sup |-> "none"]
       IN timers' = Append(old, timer)
    \* s.entries[id] = timer panics on the nil map, after the timer is armed;
    \* the deferred Unlock releases the mutex
    /\ entries' = IF entriesNil THEN entries
                  ELSE [entries EXCEPT ![id] = Len(timers) + 1]
    /\ panicked' = (panicked \/ entriesNil)
    \* in a callback the panic unwinds through fn into run, which has no recover
    /\ IF entriesNil /\ who # 0
       THEN /\ pc' = [pc EXCEPT ![who] = "panicked"]
            /\ running' = running - 1
       ELSE UNCHANGED <<pc, running>>
    /\ reent' = [l \in Loops |-> reent[l] \/ l = who]
    /\ UNCHANGED <<now, cap, smVars, tk, tc, hubVars, entriesNil, jobCh, doneClosed, stopPc, mu,
                   cur, log>>

\* mutant of Cancel: the entry is deleted but its timer is not stopped
CancelNoStop(id, who) ==
    /\ Alive
    /\ mu = 0
    /\ timers' = [t \in TimerIds |->
                    IF timers[t].id = id
                    THEN Superseded(timers[t], t, "C") ELSE timers[t]]
    /\ entries' = IF entriesNil THEN entries ELSE [entries EXCEPT ![id] = 0]
    /\ reent' = [l \in Loops |-> reent[l] \/ l = who]
    /\ UNCHANGED <<now, cap, panicked, smVars, tk, tc, hubVars, entriesNil, jobCh, doneClosed, stopPc,
                   mu, pc, cur, running, log>>

\* Sched.Cancel
Cancel(id, who) ==
    /\ Alive
    /\ mu = 0
    /\ timers' = [t \in TimerIds |->
                    LET tm == IF ~entriesNil /\ entries[id] = t
                              THEN TimerStop(timers[t]) ELSE timers[t]
                    IN IF tm.id = id THEN Superseded(tm, t, "C") ELSE tm]
    /\ entries' = IF entriesNil THEN entries ELSE [entries EXCEPT ![id] = 0]
    /\ reent' = [l \in Loops |-> reent[l] \/ l = who]
    /\ UNCHANGED <<now, cap, panicked, smVars, tk, tc, hubVars, entriesNil, jobCh, doneClosed, stopPc, mu, pc,
                   cur, running, log>>

ExtSchedule(at, id) == Schedule(at, id, 0)

ExtCancel(id) == Cancel(id, 0)

\* the callback fn(id), running in dispatch loop l, calls Schedule / Cancel
CbSchedule(l, at, id) == pc[l] = "calling" /\ Schedule(at, id, l)

CbCancel(l, id) == pc[l] = "calling" /\ Cancel(id, l)

\* mutant of Fire: the timer fires without waiting for its time
FireEarly(t) ==
    /\ Alive
    /\ t \in TimerIds
    /\ Armed(t)
    /\ timers' = [timers EXCEPT ![t].st = "firing"]
    /\ UNCHANGED <<now, cap, panicked, smVars, tk, tc, hubVars, entries, entriesNil, jobCh, doneClosed, stopPc,
                   mu, pc, cur, running, reent, log>>

\* the runtime starts the timer's function in its own goroutine at or after `at`
Fire(t) ==
    /\ Alive
    /\ t \in TimerIds
    /\ Armed(t)
    /\ now >= timers[t].at
    /\ timers' = [timers EXCEPT ![t].st = "firing"]
    /\ UNCHANGED <<now, cap, panicked, smVars, tk, tc, hubVars, entries, entriesNil, jobCh, doneClosed, stopPc,
                   mu, pc, cur, running, reent, log>>

\* mutant of Send: a non-blocking send that drops the id when the buffer is full
SendOrDrop(t) ==
    /\ Alive
    /\ t \in TimerIds
    /\ timers[t].st = "firing"
    /\ jobCh' = IF Len(jobCh) < cap THEN Append(jobCh, t) ELSE jobCh
    /\ timers' = [timers EXCEPT ![t].st = "sent"]
    /\ UNCHANGED <<now, cap, panicked, smVars, tk, tc, hubVars, entries, entriesNil, doneClosed, stopPc, mu, pc,
                   cur, running, reent, log>>

\* s.jobCh <- id into the buffer; blocks while the buffer is full
Send(t) ==
    /\ Alive
    /\ t \in TimerIds
    /\ timers[t].st = "firing"
    /\ Len(jobCh) < cap
    /\ jobCh' = Append(jobCh, t)
    /\ timers' = [timers EXCEPT ![t].st = "sent"]
    /\ UNCHANGED <<now, cap, panicked, smVars, tk, tc, hubVars, entries, entriesNil, doneClosed, stopPc, mu, pc,
                   cur, running, reent, log>>

\* Sched.Start: go s.run()
Start ==
    /\ Alive
    /\ \E l \in Loops :
          /\ pc[l] = "off"
          /\ \A k \in Loops : k < l => pc[k] # "off"
          /\ pc' = [pc EXCEPT ![l] = "idle"]
    /\ UNCHANGED <<now, cap, panicked, smVars, tk, tc, hubVars, timers, entries, entriesNil, jobCh, doneClosed,
                   stopPc, mu, cur, running, reent, log>>

\* mutant of CallFn: go s.fn(id), the loop does not wait for the callback
CallFnAsync(l, t) ==
    /\ cur' = [cur EXCEPT ![l] = t]
    /\ pc' = pc
    /\ running' = running + 1
    /\ log' = Append(log, t)
    /\ UNCHANGED mu

\* mutant of CallFn: s.fn(id) called with s.mu held
CallFnLocked(l, t) ==
    /\ mu = 0
    /\ mu' = l
    /\ cur' = [cur EXCEPT ![l] = t]
    /\ pc' = [pc EXCEPT ![l] = "calling"]
    /\ running' = running + 1
    /\ log' = Append(log, t)

\* run: s.fn(id), called in the loop's own goroutine with no lock held
CallFn(l, t) ==
    /\ cur' = [cur EXCEPT ![l] = t]
    /\ pc' = [pc EXCEPT ![l] = "calling"]
    /\ running' = running + 1
    /\ log' = Append(log, t)
    /\ UNCHANGED mu

\* run: case id := <-s.jobCh, from the buffer or, on the unbuffered channel,
\* from a blocked sender. select picks any ready case, so a closed done
\* channel does not disable this one.
RunRecv(l) ==
    /\ Alive
    /\ pc[l] = "idle"
    /\ \/ /\ jobCh # <<>>
          /\ jobCh' = Tail(jobCh)
          /\ CallFn(l, Head(jobCh))
          /\ UNCHANGED timers
       \/ /\ cap = 0
          /\ \E t \in TimerIds :
                /\ timers[t].st = "firing"
                /\ timers' = [timers EXCEPT ![t].st = "sent"]
                /\ CallFn(l, t)
          /\ UNCHANGED jobCh
    /\ UNCHANGED <<now, cap, panicked, smVars, tk, tc, hubVars, entries, entriesNil, doneClosed, stopPc, reent>>

\* run: case <-s.done: return
RunExit(l) ==
    /\ Alive
    /\ pc[l] = "idle"
    /\ doneClosed
    /\ pc' = [pc EXCEPT ![l] = "exited"]
    /\ UNCHANGED <<now, cap, panicked, smVars, tk, tc, hubVars, timers, entries, entriesNil, jobCh, doneClosed,
                   stopPc, mu, cur, running, reent, log>>

\* run: s.fn(id) returns
RunReturn(l) ==
    /\ Alive
    /\ pc[l] = "calling"
    /\ pc' = [pc EXCEPT ![l] = "locking"]
    /\ running' = running - 1
    /\ reent' = [reent EXCEPT ![l] = FALSE]
    /\ UNCHANGED <<now, cap, panicked, smVars, tk, tc, hubVars, timers, entries, entriesNil, jobCh, doneClosed,
                   stopPc, mu, cur, log>>

\* run: s.fn(id) panics; run has no recover, the panic ends its goroutine
\* (and with it the process) before delete(s.entries, id)
FnPanic(l) ==
    /\ Alive
    /\ pc[l] = "calling"
    /\ pc' = [pc EXCEPT ![l] = "panicked"]
    /\ running' = running - 1
    /\ UNCHANGED <<now, cap, panicked, smVars, tk, tc, hubVars, timers, entries, entriesNil, jobCh,
                   doneClosed, stopPc, mu, cur, reent, log>>

\* run: s.mu.Lock()
RunLock(l) ==
    /\ Alive
    /\ pc[l] = "locking"
    /\ mu = 0
    /\ mu' = l
    /\ pc' = [pc EXCEPT ![l] = "deleting"]
    /\ UNCHANGED <<now, cap, panicked, smVars, tk, tc, hubVars, timers, entries, entriesNil, jobCh, doneClosed,
                   stopPc, cur, running, reent, log>>

\* run: delete(s.entries, id); s.mu.Unlock()  (delete on a nil map is a no-op)
RunDelete(l) ==
    /\ Alive
    /\ pc[l] = "deleting"
    /\ entries' = IF entriesNil THEN entries
                  ELSE [entries EXCEPT ![JobIdOf(cur[l])] = 0]
    /\ mu' = 0
    /\ pc' = [pc EXCEPT ![l] = "idle"]
    /\ UNCHANGED <<now, cap, panicked, smVars, tk, tc, hubVars, timers, entriesNil, jobCh, doneClosed, stopPc,
                   cur, running, reent, log>>

\* Sched.Stop, first statement: close(s.done), before the mutex is taken
StopClose ==
    /\ Alive
    /\ stopPc = "no"
    /\ doneClosed' = TRUE
    /\ stopPc' = "closing"
    /\ UNCHANGED <<now, cap, panicked, smVars, tk, tc, hubVars, timers, entries, entriesNil, jobCh, mu, pc, cur,
                   running, reent, log>>

\* Sched.Stop, under the mutex: stop every timer of s.entries, s.entries = nil
StopTimers ==
    /\ Alive
    /\ stopPc = "closing"
    /\ mu = 0
    /\ timers' = [t \in TimerIds |->
                    IF \E i \in Ids : entries[i] = t
                    THEN TimerStop(timers[t]) ELSE timers[t]]
    /\ entries' = [i \in Ids |-> 0]
    /\ entriesNil' = TRUE
    /\ stopPc' = "stopped"
    /\ UNCHANGED <<now, cap, panicked, smVars, tk, tc, hubVars, jobCh, doneClosed, mu, pc, cur, running, reent, log>>

\* the wall clock advances
Tick ==
    /\ Alive
    /\ now < MaxTime
    /\ now' = now + 1
    /\ UNCHANGED <<cap, panicked, smVars, tk, tc, hubVars, timers, entries, entriesNil, jobCh, doneClosed, stopPc,
                   mu, pc, cur, running, reent, log>>

\* every step but a call of Schedule
Others ==
    \/ \E id \in Ids : ExtCancel(id)
    \/ \E l \in Loops, id \in Ids : CbCancel(l, id)
    \/ \E t \in TimerIds : Fire(t)
    \/ \E t \in TimerIds : Send(t)
    \/ Start
    \/ \E l \in Loops : RunRecv(l)
    \/ \E l \in Loops : RunExit(l)
    \/ \E l \in Loops : RunReturn(l)
    \/ \E l \in Loops : RunLock(l)
    \/ \E l \in Loops : RunDelete(l)
    \/ StopClose
    \/ StopTimers
    \/ Tick

Next ==
    \/ \E at \in Times, id \in Ids : ExtSchedule(at, id)
    \/ \E l \in Loops, at \in Times, id \in Ids : CbSchedule(l, at, id)
    \/ Others

Spec == Init /\ [][Next]_vars

\* ---- the fair specification: what Go's scheduler and timers guarantee ----
\* The clock advances, a due timer fires, a goroutine that can send or
\* receive does so, a callback returns, a free mutex is acquired. The number
\* of Schedule calls is bounded by MaxFairTimers.
Fairness ==
    /\ WF_vars(Tick)
    /\ \A t \in 1..MaxTimers : WF_vars(Fire(t)) /\ WF_vars(Send(t))
    /\ \A l \in Loops : /\ WF_vars(RunRecv(l))
                        /\ WF_vars(RunReturn(l))
                        /\ WF_vars(RunLock(l))
                        /\ WF_vars(RunDelete(l))

FairNext ==
    \/ \E at \in Times, id \in Ids :
          Len(timers) < MaxFairTimers /\ ExtSchedule(at, id)
    \/ \E l \in Loops, at \in Times, id \in Ids :
          Len(timers) < MaxFairTimers /\ CbSchedule(l, at, id)
    \/ Others

FairSpec == Init /\ [][FairNext]_vars /\ Fairness

\* ---- the fair specification with callbacks that may panic ----
PanicNext ==
    \/ \E at \in Times, id \in Ids :
          Len(timers) < MaxFairTimers /\ ExtSchedule(at, id)
    \/ \E l \in Loops, at \in Times, id \in Ids :
          Len(timers) < MaxFairTimers /\ CbSchedule(l, at, id)
    \/ Others
    \/ \E l \in Loops : FnPanic(l)

PanicSpec == Init /\ [][PanicNext]_vars /\ Fairness

\* ---- concurrent clients, distinct ids (TestConcurrency) ----
\* Every thread schedules an id of its own once; some of them cancel their id
\* before its fire time. The scheduler is not stopped meanwhile.
ConcNext ==
    \/ \E at \in Times, id \in Ids :
          /\ \A t \in TimerIds : timers[t].id # id
          /\ ExtSchedule(at, id)
    \/ \E id \in Ids :
          /\ \E t \in TimerIds : timers[t].id = id /\ now < timers[t].at
          /\ ExtCancel(id)
    \/ \E t \in TimerIds : Fire(t)
    \/ \E t \in TimerIds : Send(t)
    \/ Start
    \/ \E l \in Loops : RunRecv(l)
    \/ \E l \in Loops : RunReturn(l)
    \/ \E l \in Loops : RunLock(l)
    \/ \E l \in Loops : RunDelete(l)
    \/ Tick

ConcSpec == Init /\ [][ConcNext]_vars /\ Fairness

\* ---- the conversation store (src/internal/wakey/state_manager.go) ----
\* Every method body runs under sm.mutex and is one step; the sweep of the
\* background goroutine takes the mutex in one step and deletes and releases
\* it in the next, so a method is enabled only while the sweep does not hold
\* the mutex. Start is taken to have effect at most once, as in main. GetState
\* only reads: it is the operator GetStateResult.

\* sm.mutex is not held by the background sweep
MuFree == sweeper # "locked"

\* the caller's map no longer is what ImportStates received / ExportStates
\* returned, or the store has changed since that call
Touch(kind) ==
    IF kind \in {"imported", "exported"} THEN kind \o "_changed" ELSE kind

\* mutant of Start: no check of isStopped
SmStartUnchecked(maxAge) ==
    /\ MuFree
    /\ ticker' = "on"
    /\ sweeper' = "run"
    /\ sweepAge' = maxAge
    /\ ret' = Result("Start", ~isStopped)
    /\ UNCHANGED <<schedVars, tk, tc, hubVars, heap, states, tickPending, isStopped, cmap,
                   cmapKind, ptr>>

\* StateManager.Start
SmStart(maxAge) ==
    /\ MuFree
    /\ isStopped \/ ticker = "nil"
    /\ IF isStopped
       THEN UNCHANGED <<ticker, sweeper, sweepAge>>
       ELSE /\ ticker' = "on"
            /\ sweeper' = "run"
            /\ sweepAge' = maxAge
    /\ ret' = Result("Start", ~isStopped)
    /\ UNCHANGED <<schedVars, tk, tc, hubVars, heap, states, tickPending, isStopped, cmap,
                   cmapKind, ptr>>

\* mutant of Stop: no sync.Once, so a later call closes sm.done again, which
\* panics
SmStopAgain ==
    /\ isStopped \/ MuFree
    /\ ticker' = IF ticker = "on" THEN "stopped" ELSE ticker
    /\ isStopped' = TRUE
    /\ panicked' = (panicked \/ isStopped)
    /\ ret' = Result("Stop", ~isStopped)
    /\ UNCHANGED <<now, cap, timers, entries, entriesNil, jobCh, doneClosed,
                   stopPc, mu, pc, cur, running, reent, log, heap, states,
                   tickPending, sweeper, sweepAge, cmap, cmapKind, ptr,
                   hubVars, tc, tk>>

\* StateManager.Stop: the body runs once (sm.stopOnce)
SmStop ==
    /\ isStopped \/ MuFree
    /\ IF isStopped
       THEN UNCHANGED <<ticker, isStopped>>
       ELSE /\ ticker' = IF ticker = "on" THEN "stopped" ELSE ticker
            /\ isStopped' = TRUE
    /\ ret' = Result("Stop", ~isStopped)
    /\ UNCHANGED <<schedVars, tk, tc, hubVars, heap, states, tickPending, sweeper, sweepAge,
                   cmap, cmapKind, ptr>>

\* mutant of SetState: the record is refreshed but its State is not assigned
SetStateTouchOnly(u, s) ==
    /\ MuFree
    /\ LET a == IF states[u] # 0 THEN states[u] ELSE NewAddr(1)
       IN Commit([heap EXCEPT ![a].LastUpdated = now],
                 [states EXCEPT ![u] = a], cmap, ptr)
    /\ cmapKind' = Touch(cmapKind)
    /\ UNCHANGED <<schedVars, tk, tc, hubVars, ticker, tickPending, sweeper, sweepAge,
                   isStopped, ret>>

\* StateManager.SetState
SetState(u, s) ==
    /\ MuFree
    /\ LET a == IF states[u] # 0 THEN states[u] ELSE NewAddr(1)
       IN Commit([heap EXCEPT ![a].State = s, ![a].LastUpdated = now],
                 [states EXCEPT ![u] = a], cmap, ptr)
    /\ cmapKind' = Touch(cmapKind)
    /\ UNCHANGED <<schedVars, tk, tc, hubVars, ticker, tickPending, sweeper, sweepAge,
                   isStopped, ret>>

\* StateManager.GetState: what it returns, as <<state, exists>>
GetStateResult(u) ==
    IF states[u] = 0 THEN <<0, FALSE>> ELSE <<heap[states[u]].State, TRUE>>

\* StateManager.SetUserData(u, data) with the handler's pointer as data: the
\* store keeps the pointer itself
SetUserData(u) ==
    /\ MuFree
    /\ ptr # 0
    /\ Commit([heap EXCEPT ![ptr].LastUpdated = now],
              [states EXCEPT ![u] = ptr], cmap, ptr)
    /\ cmapKind' = Touch(cmapKind)
    /\ UNCHANGED <<schedVars, tk, tc, hubVars, ticker, tickPending, sweeper, sweepAge,
                   isStopped, ret>>

\* StateManager.GetUserData: returns the stored pointer itself (nil, false
\* when there is no record)
GetUserData(u) ==
    /\ MuFree
    /\ Commit(heap, states, cmap, states[u])
    /\ UNCHANGED <<schedVars, tk, tc, hubVars, ticker, tickPending, sweeper, sweepAge,
                   isStopped, cmapKind, ret>>

\* mutant of ClearState: the whole map is emptied
ClearStateAll(u) ==
    /\ MuFree
    /\ Commit(heap, NoMap, cmap, ptr)
    /\ cmapKind' = IF states # NoMap THEN Touch(cmapKind) ELSE cmapKind
    /\ UNCHANGED <<schedVars, tk, tc, hubVars, ticker, tickPending, sweeper, sweepAge,
                   isStopped, ret>>

\* StateManager.ClearState
ClearState(u) ==
    /\ MuFree
    /\ Commit(heap, [states EXCEPT ![u] = 0], cmap, ptr)
    /\ cmapKind' = IF states[u] # 0 THEN Touch(cmapKind) ELSE cmapKind
    /\ UNCHANGED <<schedVars, tk, tc, hubVars, ticker, tickPending, sweeper, sweepAge,
                   isStopped, ret>>

\* mutant of Cleanup: a record whose age equals maxAge is deleted too
CleanupInclusive(maxAge) ==
    LET kept == [u \in Users |->
                   IF states[u] # 0
                      /\ now - heap[states[u]].LastUpdated >= maxAge
                   THEN 0 ELSE states[u]]
    IN /\ Commit(heap, kept, cmap, ptr)
       /\ cmapKind' = IF kept # states THEN Touch(cmapKind) ELSE cmapKind

\* the body of CleanupOldStates
Cleanup(maxAge) ==
    LET kept == [u \in Users |->
                   IF states[u] # 0
                      /\ now - heap[states[u]].LastUpdated > maxAge
                   THEN 0 ELSE states[u]]
    IN /\ Commit(heap, kept, cmap, ptr)
       /\ cmapKind' = IF kept # states THEN Touch(cmapKind) ELSE cmapKind

\* StateManager.CleanupOldStates, called directly
CleanupOldStates(maxAge) ==
    /\ MuFree
    /\ Cleanup(maxAge)
    /\ ret' = [op |-> "CleanupOldStates", at |-> now, maxAge |-> maxAge,
               ok |-> \E u \in Users : states[u] # 0 /\ states'[u] = 0]
    /\ UNCHANGED <<schedVars, tk, tc, hubVars, ticker, tickPending, sweeper, sweepAge,
                   isStopped>>

\* the running ticker puts a tick into its channel (of capacity 1)
TickerFire ==
    /\ ticker = "on"
    /\ ~tickPending
    /\ tickPending' = TRUE
    /\ UNCHANGED <<schedVars, tk, tc, hubVars, heap, states, ticker, sweeper, sweepAge,
                   isStopped, cmap, cmapKind, ptr, ret>>

\* cleanupRoutine: case <-sm.ticker.C: the tick is received and
\* CleanupOldStates is called. A tick left in the channel of a stopped ticker
\* can still be received (runtimes before Go 1.23).
SweepRecv ==
    /\ sweeper = "run"
    /\ tickPending
    /\ tickPending' = FALSE
    /\ sweeper' = "cleaning"
    /\ UNCHANGED <<schedVars, tk, tc, hubVars, heap, states, ticker, sweepAge, isStopped,
                   cmap, cmapKind, ptr, ret>>

\* CleanupOldStates called by cleanupRoutine: sm.mutex.Lock()
SweepLock ==
    /\ sweeper = "cleaning"
    /\ sweeper' = "locked"
    /\ UNCHANGED <<schedVars, tk, tc, hubVars, heap, states, ticker, tickPending, sweepAge,
                   isStopped, cmap, cmapKind, ptr, ret>>

\* mutant of SweepClean: the loop deletes every record that was not written
\* at the very time of the sweep
SweepCleanNoAge ==
    /\ sweeper = "locked"
    /\ Cleanup(0)
    /\ sweeper' = "run"
    /\ UNCHANGED <<schedVars, tk, tc, hubVars, ticker, tickPending, sweepAge, isStopped, ret>>

\* CleanupOldStates called by cleanupRoutine: the loop of deletions, Unlock,
\* and back to the select
SweepClean ==
    /\ sweeper = "locked"
    /\ Cleanup(sweepAge)
    /\ sweeper' = "run"
    /\ UNCHANGED <<schedVars, tk, tc, hubVars, ticker, tickPending, sweepAge, isStopped, ret>>

\* cleanupRoutine: case <-sm.done: return
SweepExit ==
    /\ sweeper = "run"
    /\ isStopped
    /\ sweeper' = "exited"
    /\ UNCHANGED <<schedVars, tk, tc, hubVars, heap, states, ticker, tickPending, sweepAge,
                   isStopped, cmap, cmapKind, ptr, ret>>

\* mutant of ImportStatesFails: no check of the life cycle
ImportNeverFails == FALSE

\* ImportStates returns its error
ImportStatesFails == ~isStopped /\ ticker # "nil"

\* mutant of ImportStates: the store keeps the caller's pointers
ImportShallow ==
    /\ MuFree
    /\ IF ImportStatesFails
       THEN /\ ret' = Result("ImportStates", FALSE)
            /\ UNCHANGED <<heap, states, cmap, ptr, cmapKind>>
       ELSE /\ Commit(heap, cmap, cmap, ptr)
            /\ cmapKind' = IF cmapKind = "nil" THEN "nil" ELSE "imported"
            /\ ret' = Result("ImportStates", TRUE)
    /\ UNCHANGED <<schedVars, tk, tc, hubVars, ticker, tickPending, sweeper, sweepAge,
                   isStopped>>

\* mutant of ImportStates: the copies are added to the records already there
ImportMerge ==
    /\ MuFree
    /\ IF ImportStatesFails
       THEN /\ ret' = Result("ImportStates", FALSE)
            /\ UNCHANGED <<heap, states, cmap, ptr, cmapKind>>
       ELSE /\ LET dst == CopyMap(cmap)
               IN Commit(CopyHeap(cmap, dst),
                         [u \in Users |->
                             IF dst[u] # 0 THEN dst[u] ELSE states[u]],
                         cmap, ptr)
            /\ cmapKind' = IF cmapKind = "nil" THEN "nil" ELSE "imported"
            /\ ret' = Result("ImportStates", TRUE)
    /\ UNCHANGED <<schedVars, tk, tc, hubVars, ticker, tickPending, sweeper, sweepAge,
                   isStopped>>

\* StateManager.ImportStates, with the caller's map as argument
ImportStates ==
    /\ MuFree
    /\ IF ImportStatesFails
       THEN /\ ret' = Result("ImportStates", FALSE)
            /\ UNCHANGED <<heap, states, cmap, ptr, cmapKind>>
       ELSE /\ LET dst == CopyMap(cmap)
               IN Commit(CopyHeap(cmap, dst), dst, cmap, ptr)
            /\ cmapKind' = IF cmapKind = "nil" THEN "nil" ELSE "imported"
            /\ ret' = Result("ImportStates", TRUE)
    /\ UNCHANGED <<schedVars, tk, tc, hubVars, ticker, tickPending, sweeper, sweepAge,
                   isStopped>>

\* mutant of ExportStatesFails: the check that ImportStates makes
ExportFailsWhileSweeping == ~isStopped /\ ticker # "nil"

\* ExportStates returns its error
ExportStatesFails == ~isStopped

\* mutant of ExportStates: the returned map holds the store's pointers
ExportShallow ==
    /\ MuFree
    /\ IF ExportStatesFails
       THEN /\ ret' = Result("ExportStates", FALSE)
            /\ UNCHANGED <<heap, states, cmap, ptr, cmapKind>>
       ELSE /\ Commit(heap, states, states, ptr)
            /\ cmapKind' = "exported"
            /\ ret' = Result("ExportStates", TRUE)
    /\ UNCHANGED <<schedVars, tk, tc, hubVars, ticker, tickPending, sweeper, sweepAge,
                   isStopped>>

\* StateManager.ExportStates; the caller keeps the returned map
ExportStates ==
    /\ MuFree
    /\ IF ExportStatesFails
       THEN /\ ret' = Result("ExportStates", FALSE)
            /\ UNCHANGED <<heap, states, cmap, ptr, cmapKind>>
       ELSE /\ LET dst == CopyMap(states)
               IN Commit(CopyHeap(states, dst), states, dst, ptr)
            /\ cmapKind' = "exported"
            /\ ret' = Result("ExportStates", TRUE)
    /\ UNCHANGED <<schedVars, tk, tc, hubVars, ticker, tickPending, sweeper, sweepAge,
                   isStopped>>

\* ---- the callers of the store ----
\* a handler changes a field of the record it holds a pointer to
HandlerEdit(p) ==
    /\ ptr # 0
    /\ heap[ptr].Plans # p
    /\ heap' = [heap EXCEPT ![ptr].Plans = p]
    /\ cmapKind' = IF \E u \in Users : states[u] = ptr
                   THEN Touch(cmapKind) ELSE cmapKind
    /\ UNCHANGED <<schedVars, tk, tc, hubVars, states, ticker, tickPending, sweeper, sweepAge,
                   isStopped, cmap, ptr, ret>>

\* a handler makes a record of its own: &UserData{State: s, Plans: p}
HandlerNew(s, p) ==
    /\ LET a == NewAddr(1)
       IN Commit([heap EXCEPT ![a] = [State |-> s, Plans |-> p,
                                      LastUpdated |-> 0]],
                 states, cmap, a)
    /\ UNCHANGED <<schedVars, tk, tc, hubVars, ticker, tickPending, sweeper, sweepAge,
                   isStopped, cmapKind, ret>>

\* the caller makes an empty map: make(map[int64]*UserData)
CallerNewMap ==
    /\ Commit(heap, states, NoMap, ptr)
    /\ cmapKind' = "own"
    /\ UNCHANGED <<schedVars, tk, tc, hubVars, ticker, tickPending, sweeper, sweepAge,
                   isStopped, ret>>

\* the caller puts a new record into its map: m[u] = &UserData{...}
CallerPut(u, r) ==
    /\ cmapKind # "nil"
    /\ LET a == NewAddr(1)
       IN Commit([heap EXCEPT ![a] = r], states, [cmap EXCEPT ![u] = a], ptr)
    /\ cmapKind' = Touch(cmapKind)
    /\ UNCHANGED <<schedVars, tk, tc, hubVars, ticker, tickPending, sweeper, sweepAge,
                   isStopped, ret>>

\* the caller deletes an entry of its map: delete(m, u)
CallerDelete(u) ==
    /\ cmap[u] # 0
    /\ Commit(heap, states, [cmap EXCEPT ![u] = 0], ptr)
    /\ cmapKind' = Touch(cmapKind)
    /\ UNCHANGED <<schedVars, tk, tc, hubVars, ticker, tickPending, sweeper, sweepAge,
                   isStopped, ret>>

\* the caller changes a field of a record of its map: m[u].State = s
CallerEdit(u, s) ==
    /\ cmap[u] # 0
    /\ heap[cmap[u]].State # s
    /\ heap' = [heap EXCEPT ![cmap[u]].State = s]
    /\ cmapKind' = Touch(cmapKind)
    /\ UNCHANGED <<schedVars, tk, tc, hubVars, states, ticker, tickPending, sweeper, sweepAge,
                   isStopped, cmap, ptr, ret>>

\* the wall clock advances between two calls of the store (sm.now); a
\* critical section takes no time on the scale of maxAge
StoreTick ==
    /\ MuFree
    /\ now < MaxStoreTime
    /\ now' = now + 1
    /\ UNCHANGED <<cap, timers, entries, entriesNil, jobCh, doneClosed, stopPc,
                   mu, pc, cur, running, reent, log, panicked, smVars, tk, tc, hubVars>>

\* the store in use: handlers read and write records, a sweep may run
StoreNext ==
    \/ \E u \in Users, s \in UserStates : SetState(u, s)
    \/ \E u \in Users : SetUserData(u)
    \/ \E u \in Users : GetUserData(u)
    \/ \E u \in Users : ClearState(u)
    \/ \E a \in Ages : CleanupOldStates(a)
    \/ \E p \in PlansValues : HandlerEdit(p)
    \/ \E s \in UserStates, p \in PlansValues : HandlerNew(s, p)
    \/ StoreTick

StoreInit == Init /\ cap = 0

StoreSpec == StoreInit /\ [][StoreNext]_vars

\* the records the caller puts into its map: every field but State differs
\* from what the store writes itself (Plans 0 and the time of the write)
MapRecords == {r \in Records : r.Plans = MaxPlans /\ r.LastUpdated = MaxTime}

\* the life cycle of the store and its snapshots: the caller builds a map,
\* imports it, the store is written, stopped and exported, and the caller goes
\* on changing the map it passed or received
SnapshotNext ==
    \/ SmStart(MaxAge)
    \/ SmStop
    \/ ImportStates
    \/ ExportStates
    \/ \E u \in Users, s \in UserStates : SetState(u, s)
    \/ \E u \in Users : ClearState(u)
    \/ CallerNewMap
    \/ \E u \in Users, r \in MapRecords : CallerPut(u, r)
    \/ \E u \in Users : CallerDelete(u)
    \/ \E u \in Users, s \in UserStates : CallerEdit(u, s)

SnapshotSpec == StoreInit /\ [][SnapshotNext]_vars

\* the life cycle of the store with its background sweep, as in main:
\* Start, states are set while the ticker ticks and the sweep runs, Stop, and
\* the stopped store is exported
SweepNext ==
    \/ SmStart(MaxAge)
    \/ SmStop
    \/ TickerFire
    \/ SweepRecv
    \/ SweepLock
    \/ SweepClean
    \/ SweepExit
    \/ \E u \in Users, s \in UserStates : SetState(u, s)
    \/ ExportStates
    \/ StoreTick

SweepSpec == StoreInit /\ [][SweepNext]_vars

\* handlers at work while the sweep runs: a handler sets states, gets the
\* record of a user and changes a field of it, with no lock of its own
RaceNext ==
    \/ SmStart(MaxAge)
    \/ TickerFire
    \/ SweepRecv
    \/ SweepLock
    \/ SweepClean
    \/ \E u \in Users, s \in UserStates : SetState(u, s)
    \/ \E u \in Users : SetUserData(u)
    \/ \E u \in Users : GetUserData(u)
    \/ \E u \in Users : ClearState(u)
    \/ \E p \in PlansValues : HandlerEdit(p)
    \/ StoreTick

RaceSpec == StoreInit /\ [][RaceNext]_vars

\* the writers and the background sweep: handlers set states and user data
\* while the ticker ticks; only the sweep removes a key
WriterNext ==
    \/ SmStart(MaxAge)
    \/ TickerFire
    \/ SweepRecv
    \/ SweepLock
    \/ SweepClean
    \/ \E u \in Users, s \in UserStates : SetState(u, s)
    \/ \E u \in Users : SetUserData(u)
    \/ \E u \in Users : GetUserData(u)
    \/ StoreTick

WriterSpec == StoreInit /\ [][WriterNext]_vars

\* ---- the background sweep in time ----
\* The ticker puts a tick into its channel of capacity 1 every period and
\* drops the tick when the channel is full. cleanupRoutine takes a tick out
\* when it is in its select, and the sweep happens when CleanupOldStates,
\* which it then calls, has got sm.mutex; the clock may advance in between.

\* Go's builtin max
max(a, b) == IF a >= b THEN a ELSE b

\* mutant of TkStart: the interval is passed to time.NewTicker as it is;
\* NewTicker panics when it is not positive
TkStartNoFloor(interval) ==
    /\ tk.st = "off"
    /\ tk' = IF interval <= 0
             THEN [tk EXCEPT !.st = "panicked", !.interval = interval]
             ELSE [tk EXCEPT !.st = "on", !.interval = interval,
                             !.period = interval,
                             !.next = tk.clock + interval,
                             !.pc = "select"]
    /\ UNCHANGED <<schedVars, smVars, hubVars, tc>>

\* StateManager.Start(cleanupInterval, maxAge) on the store that is not
\* stopped: the ticker and go sm.cleanupRoutine(maxAge)
TkStart(interval) ==
    /\ tk.st = "off"
    /\ LET d == max(interval, Hour)
       IN tk' = IF d <= 0
                THEN [tk EXCEPT !.st = "panicked", !.interval = interval]
                ELSE [tk EXCEPT !.st = "on", !.interval = interval,
                                !.period = d, !.next = tk.clock + d,
                                !.pc = "select"]
    /\ UNCHANGED <<schedVars, smVars, hubVars, tc>>

\* the ticker at the time a tick is due: the tick goes into the channel
\* unless one is there already
TkTick ==
    /\ tk.st = "on"
    /\ tk.clock = tk.next
    /\ tk' = IF tk.pend
             THEN [tk EXCEPT !.next = @ + tk.period]
             ELSE [tk EXCEPT !.next = @ + tk.period, !.pend = TRUE,
                             !.lastTick = tk.clock, !.ticks = @ + 1]
    /\ UNCHANGED <<schedVars, smVars, hubVars, tc>>

\* the clock advances, not past a tick that is due
TkAdvance ==
    /\ tk.clock < MaxClock
    /\ tk.st = "on" => tk.clock < tk.next
    /\ tk' = [tk EXCEPT !.clock = @ + 1]
    /\ UNCHANGED <<schedVars, smVars, hubVars, tc>>

\* cleanupRoutine: case <-sm.ticker.C, and it calls CleanupOldStates
TkRecv ==
    /\ tk.pc = "select"
    /\ tk.pend
    /\ tk' = [tk EXCEPT !.pend = FALSE, !.pc = "cleaning"]
    /\ UNCHANGED <<schedVars, smVars, hubVars, tc>>

\* CleanupOldStates has got sm.mutex: the sweep, at now := sm.now(), and
\* back to the select
TkSweep ==
    /\ tk.pc = "cleaning"
    /\ tk' = [tk EXCEPT !.pc = "select", !.lastSweep = tk.clock,
                        !.sweeps = @ + 1]
    /\ UNCHANGED <<schedVars, smVars, hubVars, tc>>

TickerNext ==
    \/ \E interval \in Intervals : TkStart(interval)
    \/ TkTick
    \/ TkAdvance
    \/ TkRecv
    \/ TkSweep

TickerSpec == StoreInit /\ [][TickerNext]_vars

\* ---- main: start-up and the deferred shutdown (src/main.go) ----
\* main runs planSched.Start, LoadToManager, stateMan.Start, then serves until
\* the interrupt, and its deferred calls run last in first out:
\* stateMan.Stop, SaveFromManager, planSched.Stop. Its position is the last
\* call it made to the store (ret.op) and the scheduler's stopPc.

\* main is past stateMan.Start and before the interrupt
Serving == ret.op = "Start"

\* planSched.Start()
MainSchedStart == ret.op = "none" /\ Start

\* db.LoadStates builds the map that LoadToManager passes on
DbLoadStates ==
    /\ ret.op = "none"
    /\ pc[1] # "off"
    /\ \/ cmapKind = "nil" /\ CallerNewMap
       \/ \E r \in MapRecords : cmap[1] = 0 /\ CallerPut(1, r)

\* stateStorage.LoadToManager(stateMan): manager.ImportStates(savedStates)
LoadToManager ==
    /\ ret.op = "none"
    /\ cmapKind # "nil"
    /\ ImportStates

\* stateMan.Start(cleanupInterval, maxStateAge)
MainStateStart == ret.op = "ImportStates" /\ SmStart(MaxAge)

\* a message handler sets the state of a user
HandleMessage(u, s) == Serving /\ SetState(u, s)

\* a message handler schedules the plan reminder of a user
schedulePlanReminder(at, id) ==
    /\ Serving
    /\ Len(timers) < MaxMainTimers
    /\ ExtSchedule(at, id)

\* PlanHandler.notifyAboutPlansUpdate, the callback of planSched, running in
\* dispatch loop l for the user of the job: GetUserData, AskAboutWish = true
\* (here Plans), SetUserData
notifyAboutPlansUpdate(l) ==
    /\ Alive
    /\ pc[l] = "calling"
    /\ MuFree
    /\ LET u == JobIdOf(cur[l])
           a == IF states[u] # 0 THEN states[u] ELSE NewAddr(1)
       IN Commit([heap EXCEPT ![a].Plans = MaxPlans, ![a].LastUpdated = now],
                 [states EXCEPT ![u] = a], cmap, ptr)
    /\ cmapKind' = Touch(cmapKind)
    /\ UNCHANGED <<schedVars, tk, tc, hubVars, ticker, tickPending, sweeper,
                   sweepAge, isStopped, ret>>

\* the interrupt has come: deferred stateMan.Stop()
MainStateStop == Serving /\ SmStop

\* mutant of SaveFromManager: the save is not deferred behind stateMan.Stop
SaveFromManagerEarly == ret.op \in {"Start", "Stop"} /\ ExportStates

\* deferred stateStorage.SaveFromManager(stateMan): manager.ExportStates();
\* the returned map is what db.SaveStates persists
SaveFromManager == ret.op = "Stop" /\ ExportStates

\* main has returned from SaveFromManager
Saved == ret.op = "ExportStates"

\* deferred planSched.Stop()
MainSchedStop == Saved /\ (StopClose \/ StopTimers)

MainNext ==
    \/ MainSchedStart
    \/ DbLoadStates
    \/ LoadToManager
    \/ MainStateStart
    \/ \E u \in Users : HandleMessage(u, MaxState)
    \/ schedulePlanReminder(0, 1)
    \/ \E t \in TimerIds : Fire(t)
    \/ \E l \in Loops : RunRecv(l)
    \/ \E l \in Loops : notifyAboutPlansUpdate(l)
    \/ \E l \in Loops, id \in Ids :
          /\ pc[l] = "calling"
          /\ id = JobIdOf(cur[l])
          /\ Len(timers) < MaxMainTimers
          /\ CbSchedule(l, MaxTime, id)
    \/ \E l \in Loops : RunReturn(l)
    \/ \E l \in Loops : RunLock(l)
    \/ \E l \in Loops : RunDelete(l)
    \/ \E l \in Loops : RunExit(l)
    \/ TickerFire
    \/ SweepRecv
    \/ SweepLock
    \/ SweepClean
    \/ SweepExit
    \/ StoreTick
    \/ MainStateStop
    \/ SaveFromManager
    \/ MainSchedStop

MainSpec == StoreInit /\ [][MainNext]_vars

\* ---- the notification hub ----
\* Subscribe, the unsubscribe closures and Close take sm.subMutex for writing
\* and are one step each. Notify holds it for reading during its loop, so
\* several calls of Notify can be in progress together, each visiting the
\* listeners one by one in the order the map iteration gives, while no writer
\* runs. The consumer of a channel takes no lock.

Idle == [ev |-> 0, todo |-> {}]

\* mutant of NoReader: the writers do not wait for the calls of Notify
NoReaderUnlocked == TRUE

\* no call of Notify holds the read lock
NoReader == \A p \in Pubs : pubs[p] = Idle

\* the keys of sm.subs
Members == {i \in 1..Len(subs) : subs[i].member}

\* SubscriptionManager.Subscribe(bufSize)
Subscribe(b) ==
    /\ NoReader
    /\ Len(subs) < MaxSubs
    /\ subs' = Append(subs, [buf |-> b, q |-> <<>>, open |-> TRUE,
                             member |-> TRUE, unsub |-> FALSE, calls |-> 0,
                             closes |-> 0, got |-> <<>>, lost |-> {},
                             since |-> nextEv, till |-> 0])
    /\ UNCHANGED <<schedVars, smVars, tk, tc, pubs, nextEv>>

\* mutant of Unsubscribe: the closure returns and leaves the key and the
\* channel as they are
UnsubscribeKeepsKey(i) ==
    /\ NoReader
    /\ i \in 1..Len(subs)
    /\ subs[i].calls < MaxCalls
    /\ subs' = [subs EXCEPT ![i].unsub = TRUE, ![i].calls = @ + 1,
                            ![i].till = IF subs[i].unsub THEN @ ELSE nextEv]
    /\ UNCHANGED <<schedVars, smVars, tk, tc, pubs, nextEv>>

\* mutant of Unsubscribe: the closure closes its channel without looking
\* whether the key is still there; closing a closed channel panics
UnsubscribeNoCheck(i) ==
    /\ NoReader
    /\ i \in 1..Len(subs)
    /\ subs[i].calls < MaxCalls
    /\ subs' = [subs EXCEPT ![i].member = FALSE, ![i].open = FALSE,
                            ![i].unsub = TRUE, ![i].calls = @ + 1,
                            ![i].closes = @ + 1,
                            ![i].till = IF subs[i].member THEN nextEv ELSE @]
    /\ panicked' = (panicked \/ ~subs[i].open)
    /\ UNCHANGED <<now, cap, timers, entries, entriesNil, jobCh, doneClosed,
                   stopPc, mu, pc, cur, running, reent, log, smVars, tk, tc, pubs,
                   nextEv>>

\* the unsubscribe closure returned by Subscribe, for listener i
Unsubscribe(i) ==
    /\ NoReader
    /\ i \in 1..Len(subs)
    /\ subs[i].calls < MaxCalls
    /\ subs' = IF subs[i].member
               THEN [subs EXCEPT ![i].member = FALSE, ![i].open = FALSE,
                                 ![i].closes = @ + 1, ![i].unsub = TRUE,
                                 ![i].calls = @ + 1, ![i].till = nextEv]
               ELSE [subs EXCEPT ![i].unsub = TRUE, ![i].calls = @ + 1]
    /\ UNCHANGED <<schedVars, smVars, tk, tc, pubs, nextEv>>

\* mutant of NotifyBegin: the loop visits one listener only
NotifyBeginFirstOnly(p) ==
    /\ pubs[p] = Idle
    /\ nextEv < MaxEvents
    /\ nextEv' = nextEv + 1
    /\ pubs' = [pubs EXCEPT ![p] =
                   IF Members = {} THEN Idle
                   ELSE [ev |-> nextEv + 1,
                         todo |-> {CHOOSE i \in Members :
                                      \A j \in Members : i <= j}]]
    /\ UNCHANGED <<schedVars, smVars, tk, tc, subs>>

\* SubscriptionManager.Notify: RLock, and the loop is about to range over
\* sm.subs; with no listener the call is over at once
NotifyBegin(p) ==
    /\ pubs[p] = Idle
    /\ nextEv < MaxEvents
    /\ nextEv' = nextEv + 1
    /\ pubs' = [pubs EXCEPT ![p] =
                   IF Members = {} THEN Idle
                   ELSE [ev |-> nextEv + 1, todo |-> Members]]
    /\ UNCHANGED <<schedVars, smVars, tk, tc, subs>>

\* what is left of the loop of p after listener i; RUnlock after the last
Visited(p, i) ==
    [pubs EXCEPT ![p] = IF pubs[p].todo = {i} THEN Idle
                        ELSE [ev |-> pubs[p].ev, todo |-> pubs[p].todo \ {i}]]

\* mutant of NotifySend: a full channel ends the loop
NotifySendGivesUp(p, i) ==
    /\ pubs[p].ev # 0
    /\ i \in pubs[p].todo
    /\ IF ~subs[i].open
       THEN panicked' = TRUE /\ UNCHANGED subs /\ pubs' = Visited(p, i)
       ELSE /\ UNCHANGED panicked
            /\ IF Len(subs[i].q) < subs[i].buf
               THEN /\ subs' = [subs EXCEPT
                                  ![i].q = Append(@, pubs[p].ev),
                                  ![i].got = Append(@, pubs[p].ev)]
                    /\ pubs' = Visited(p, i)
               ELSE /\ subs' = [subs EXCEPT ![i].lost = @ \cup {pubs[p].ev}]
                    /\ pubs' = [pubs EXCEPT ![p] = Idle]
    /\ UNCHANGED <<now, cap, timers, entries, entriesNil, jobCh, doneClosed,
                   stopPc, mu, pc, cur, running, reent, log, smVars, tk, tc, nextEv>>

\* one turn of the loop of Notify: select { case ch <- wish: default: }.
\* The send goes through when the buffer has room, and the event is dropped
\* otherwise; a send on a closed channel panics.
NotifySend(p, i) ==
    /\ pubs[p].ev # 0
    /\ i \in pubs[p].todo
    /\ IF ~subs[i].open
       THEN panicked' = TRUE /\ UNCHANGED subs
       ELSE /\ UNCHANGED panicked
            /\ subs' = IF Len(subs[i].q) < subs[i].buf
                       THEN [subs EXCEPT ![i].q = Append(@, pubs[p].ev),
                                         ![i].got = Append(@, pubs[p].ev)]
                       ELSE [subs EXCEPT ![i].lost = @ \cup {pubs[p].ev}]
    /\ pubs' = Visited(p, i)
    /\ UNCHANGED <<now, cap, timers, entries, entriesNil, jobCh, doneClosed,
                   stopPc, mu, pc, cur, running, reent, log, smVars, tk, tc, nextEv>>

\* the consumer of listener i receives from its channel: wish := <-ch
Receive(i) ==
    /\ i \in 1..Len(subs)
    /\ subs[i].q # <<>>
    /\ subs' = [subs EXCEPT ![i].q = Tail(@)]
    /\ UNCHANGED <<schedVars, smVars, tk, tc, pubs, nextEv>>

\* mutant of HubClose: the channels are closed and their keys stay in the map
HubCloseKeepsKeys ==
    /\ NoReader
    /\ subs' = [i \in 1..Len(subs) |->
                  IF subs[i].member
                  THEN [subs[i] EXCEPT !.open = FALSE,
                                       !.closes = IF @ < MaxCalls
                                                  THEN @ + 1 ELSE @,
                                       !.till = nextEv]
                  ELSE subs[i]]
    /\ panicked' = (panicked \/ \E i \in Members : ~subs[i].open)
    /\ UNCHANGED <<now, cap, timers, entries, entriesNil, jobCh, doneClosed,
                   stopPc, mu, pc, cur, running, reent, log, smVars, tk, tc, pubs,
                   nextEv>>

\* SubscriptionManager.Close
HubClose ==
    /\ NoReader
    /\ subs' = [i \in 1..Len(subs) |->
                  IF subs[i].member
                  THEN [subs[i] EXCEPT !.member = FALSE, !.open = FALSE,
                                       !.closes = @ + 1, !.till = nextEv]
                  ELSE subs[i]]
    /\ UNCHANGED <<schedVars, smVars, tk, tc, pubs, nextEv>>

HubNext ==
    \/ \E b \in BufSizes : Subscribe(b)
    \/ \E i \in SubIds : Unsubscribe(i)
    \/ \E p \in Pubs : NotifyBegin(p)
    \/ \E p \in Pubs, i \in SubIds : NotifySend(p, i)
    \/ \E i \in SubIds : Receive(i)
    \/ HubClose

HubSpec == StoreInit /\ [][HubNext]_vars

\* a call of Notify in progress goes on: nothing in its loop waits
HubFairness == \A p \in Pubs, i \in SubIds : WF_vars(NotifySend(p, i))

HubFairSpec == StoreInit /\ [][HubNext]_vars /\ HubFairness

\* ---- the toxicity checker, a subscriber of the hub ----
\* processNewWishes is one goroutine. Its select takes any case that is ready
\* when it is evaluated; with none ready the goroutine parks and the first
\* channel operation that readies a case decides the case taken. A receive
\* from a closed and empty channel is ready and gives the zero value, nil.

\* NewToxicityChecker: db.SubscribeToWishes, quit is open
NewToxicityChecker(b) ==
    /\ tc.sub = 0
    /\ NoReader
    /\ Len(subs) < MaxSubs
    /\ subs' = Append(subs, [buf |-> b, q |-> <<>>, open |-> TRUE,
                             member |-> TRUE, unsub |-> FALSE, calls |-> 0,
                             closes |-> 0, got |-> <<>>, lost |-> {},
                             since |-> nextEv, till |-> 0])
    /\ tc' = [tc EXCEPT !.sub = Len(subs) + 1]
    /\ UNCHANGED <<schedVars, smVars, tk, pubs, nextEv>>

\* ToxicityChecker.Start: go tc.processNewWishes()
TcStart ==
    /\ tc.sub # 0
    /\ tc.pc = "off"
    /\ tc' = [tc EXCEPT !.pc = "select"]
    /\ UNCHANGED <<schedVars, smVars, tk, hubVars>>

\* ToxicityChecker.Stop, first statement: close(tc.quit). A goroutine parked
\* in the select is woken with the quit case. main defers Stop after Start.
TcStopQuit ==
    /\ tc.pc # "off"
    /\ tc.stop = "no"
    /\ tc' = [tc EXCEPT !.quit = TRUE, !.stop = "quit",
                        !.pc = IF @ = "parked" THEN "exited" ELSE @]
    /\ UNCHANGED <<schedVars, smVars, tk, hubVars>>

\* ToxicityChecker.Stop, second statement: tc.unsub()
TcStopUnsub ==
    /\ tc.stop = "quit"
    /\ NoReader
    /\ subs' = IF subs[tc.sub].member
               THEN [subs EXCEPT ![tc.sub].member = FALSE,
                                 ![tc.sub].open = FALSE,
                                 ![tc.sub].closes = @ + 1,
                                 ![tc.sub].unsub = TRUE,
                                 ![tc.sub].calls = @ + 1,
                                 ![tc.sub].till = nextEv]
               ELSE [subs EXCEPT ![tc.sub].unsub = TRUE,
                                 ![tc.sub].calls = @ + 1]
    /\ tc' = [tc EXCEPT !.stop = "done"]
    /\ UNCHANGED <<schedVars, smVars, tk, pubs, nextEv>>

\* the select of processNewWishes finds no case ready and parks
TcPark ==
    /\ tc.pc = "select"
    /\ ~tc.quit
    /\ subs[tc.sub].q = <<>>
    /\ subs[tc.sub].open
    /\ tc' = [tc EXCEPT !.pc = "parked"]
    /\ UNCHANGED <<schedVars, smVars, tk, hubVars>>

\* case <-tc.quit: return
TcSelectQuit ==
    /\ tc.pc = "select"
    /\ tc.quit
    /\ tc' = [tc EXCEPT !.pc = "exited"]
    /\ UNCHANGED <<schedVars, smVars, tk, hubVars>>

\* case wish := <-tc.wishCh: the head of the buffer, or nil from the closed
\* and empty channel. A parked goroutine is here once a wish is sent to it.
TcSelectWish ==
    /\ \/ tc.pc = "select"
       \/ tc.pc = "parked" /\ subs[tc.sub].q # <<>>
    /\ subs[tc.sub].q # <<>> \/ ~subs[tc.sub].open
    /\ IF subs[tc.sub].q # <<>>
       THEN /\ tc' = [tc EXCEPT !.pc = "checking",
                                !.wish = Head(subs[tc.sub].q)]
            /\ subs' = [subs EXCEPT ![tc.sub].q = Tail(@)]
       ELSE /\ tc' = [tc EXCEPT !.pc = "checking", !.wish = 0]
            /\ UNCHANGED subs
    /\ UNCHANGED <<schedVars, smVars, tk, pubs, nextEv>>

\* tc.checkWishToxicity(wish): it reads wish.ID and wish.Content, and a nil
\* wish is a nil pointer dereference in a goroutine with no recover
checkWishToxicity ==
    /\ tc.pc = "checking"
    /\ IF tc.wish = 0
       THEN /\ tc' = [tc EXCEPT !.pc = "panicked"]
            /\ panicked' = TRUE
       ELSE /\ tc' = [tc EXCEPT !.pc = "select"]
            /\ UNCHANGED panicked
    /\ UNCHANGED <<now, cap, timers, entries, entriesNil, jobCh, doneClosed,
                   stopPc, mu, pc, cur, running, reent, log, smVars, tk, hubVars>>

TcNext ==
    \/ \E b \in BufSizes : NewToxicityChecker(b)
    \/ TcStart
    \/ \E p \in Pubs : NotifyBegin(p)
    \/ \E p \in Pubs, i \in SubIds : NotifySend(p, i)
    \/ TcPark
    \/ TcSelectQuit
    \/ TcSelectWish
    \/ checkWishToxicity
    \/ TcStopQuit
    \/ TcStopUnsub

\* the goroutine runs whenever it can
TcFairness ==
    /\ WF_vars(TcSelectQuit)
    /\ WF_vars(TcSelectWish)
    /\ WF_vars(checkWishToxicity)

TcSpec == StoreInit /\ [][TcNext]_vars /\ TcFairness

\* ---- properties ----
St(t) == IF t \in TimerIds THEN timers[t].st ELSE "unused"

Started == \E l \in Loops : pc[l] # "off"

NeverStopped == stopPc = "no"

\* C1: with the dispatch loop started, the timer armed by a Schedule call that
\* is not stopped by Cancel, by a later Schedule or by Stop has its id passed
\* to fn exactly once, and never before its time `at` (a time in the past is
\* due at once).
C1_FiresExactlyOnce ==
    /\ [](\A t \in TimerIds :
            /\ Invocations(t) <= 1
            /\ timers[t].st \in {"firing", "sent"} => now >= timers[t].at)
    /\ \A t \in 1..MaxTimers :
          (St(t) = "armed" /\ Started)
             ~> (St(t) = "stopped" \/ Invocations(t) = 1 \/ doneClosed)

\* C1 witness: two timers that nothing superseded, one due at the start and
\* one due later, have each been delivered once by the running loop
C1_Witness ==
    /\ ~doneClosed
    /\ \E t, u \in TimerIds :
          /\ timers[t].at = 0 /\ timers[u].at = MaxTime
          /\ timers[t].sup = "none" /\ timers[u].sup = "none"
          /\ Invocations(t) = 1 /\ Invocations(u) = 1

\* C2: a timer that was armed (not fired) when Cancel was called for its id
\* never has its id passed to fn.
C2_CancelPreventsCallback ==
    NeverStopped =>
        \A t \in TimerIds : timers[t].sup = "C_armed" => ~Invoked(t)

\* C3 (in the case where the first timer is still pending at the second
\* call): a timer that was armed when Schedule was called again for its id
\* never has its id passed to fn, only the most recent one fires.
C3_LastScheduleWins ==
    NeverStopped =>
        \A t \in TimerIds : timers[t].sup = "S_armed" => ~Invoked(t)

\* C4: at most one armed, not yet fired timer exists for each JobID.
C4_OneTimerPerId ==
    NeverStopped =>
        \A id \in Ids :
            Cardinality({t \in TimerIds : timers[t].id = id /\ Armed(t)}) <= 1

\* C5: Cancel(id) leaves no armed timer for id, changes no timer when none is
\* armed for id, and leaves the timers of other ids unchanged.
C5_CancelEffect ==
    [][\A id \in Ids :
          (NeverStopped /\ (ExtCancel(id) \/ \E l \in Loops : CbCancel(l, id)))
             => /\ \A t \in TimerIds :
                      timers'[t].id = id => timers'[t].st # "armed"
                /\ \A t \in TimerIds :
                      timers[t].id # id => timers'[t] = timers[t]
                /\ (\A t \in TimerIds : timers[t].id = id => ~Armed(t))
                      => \A t \in TimerIds : timers'[t].st = timers[t].st]_vars

\* C6: the firing of a timer that was canceled or replaced while it was
\* firing is never delivered to fn after the firing of a newer timer of the
\* same id.
C6_NoStaleAfterNew ==
    NeverStopped =>
        \A i, j \in 1..Len(log) :
            (i < j /\ timers[log[j]].sup = "stale"
                   /\ timers[log[i]].id = timers[log[j]].id)
               => log[i] < log[j]

\* C7: with Start called once, at most one invocation of fn is in progress.
C7_OneCallbackAtATime ==
    Cardinality({l \in Loops : pc[l] # "off"}) <= 1 => running <= 1

\* C7 witness: a callback is in progress while the timer of another id has
\* fired and waits to be dispatched
C7_Witness ==
    \E l \in Loops, t \in TimerIds :
        /\ pc[l] = "calling" /\ running = 1
        /\ InFlight(t)
        /\ timers[t].id # JobIdOf(cur[l])

\* C8: fn runs while the dispatch loop does not hold s.mu; the loop holds it
\* only across the delete statement, so a callback that calls Schedule or
\* Cancel is never locked out, whatever jobCh contains.
C8_CallbackOutsideLock ==
    \A l \in Loops :
        /\ pc[l] = "calling" => mu # l
        /\ mu = l => pc[l] = "deleting" /\ ENABLED RunDelete(l)

\* C8 witness: a callback has rescheduled its own id while jobCh is full and
\* another fired timer is blocked on it
C8_Witness ==
    \E l \in Loops, t \in TimerIds :
        /\ pc[l] = "calling" /\ reent[l]
        /\ entries[JobIdOf(cur[l])] > cur[l]
        /\ cap > 0 /\ Len(jobCh) = cap
        /\ timers[t].st = "firing"

\* C9: after Stop has returned no id is passed to fn.
C9_NoCallbackAfterStop ==
    [][stopPc = "stopped" => log' = log]_vars

\* C10: a fired timer is never dropped: its id waits in its goroutine or in
\* jobCh (within capacity) until it is passed to fn, which happens while the
\* dispatch loop runs.
C10_Backpressure ==
    /\ [](/\ Len(jobCh) <= cap
          /\ \A t \in TimerIds :
                timers[t].st = "sent" => Queued(t) \/ Invoked(t))
    /\ \A t \in 1..MaxTimers :
          (St(t) = "firing" /\ Started) ~> (Invocations(t) = 1 \/ doneClosed)

\* C10 witness: with the loop running, jobCh is full and a fired timer is
\* blocked in its goroutine with its id
C10_Witness ==
    /\ ~doneClosed
    /\ Started
    /\ cap > 0 /\ Len(jobCh) = cap
    /\ \E t \in TimerIds : timers[t].st = "firing"

\* C11: no call of Schedule or Cancel panics, whether made before Start, while
\* the loop runs or after Stop.
C11_NeverPanics == ~panicked

\* C12: jobs are dispatched in the order of their fire times: when the id of
\* a timer is passed to fn, no timer of another id with a strictly earlier
\* fire time is waiting to be dispatched. (Only timers that have fired are
\* counted as waiting, so a late runtime timer is not held against the code.)
C12_ChronologicalOrder ==
    [][\A u \in TimerIds :
          (NeverStopped /\ log' = Append(log, u))
             => ~ \E t \in TimerIds :
                     /\ timers[t].id # timers[u].id
                     /\ timers[t].at < timers[u].at
                     /\ InFlight(t)]_vars

\* the timer was the target of a Cancel call before it fired
Canceled(t) == timers[t].st = "stopped" \/ timers[t].sup = "C_armed"

\* C13: with distinct ids scheduled concurrently and some of them canceled
\* before their fire time, no canceled job is executed, every other job is
\* executed exactly once, and nobody is left waiting for the mutex.
C13_ConcurrentScheduleCancel ==
    /\ [](\A t \in TimerIds :
            /\ Invocations(t) <= 1
            /\ Canceled(t) => ~Invoked(t))
    /\ \A t \in 1..MaxTimers :
          (St(t) = "armed" /\ Started)
             ~> (St(t) = "stopped" \/ Invocations(t) = 1)
    /\ (mu # 0) ~> (mu = 0)

\* C13 witness: of two ids scheduled, one was canceled and never executed, the
\* other was executed once, and the loop is idle again
C13_Witness ==
    /\ \E t, u \in TimerIds :
          /\ timers[t].id # timers[u].id
          /\ timers[t].st = "stopped" /\ ~Invoked(t)
          /\ Invocations(u) = 1
    /\ \A l \in Loops : pc[l] = "idle"
    /\ Len(log) = 1

\* C14: a panic of the callback for one job does not end dispatching: a timer
\* that is pending or has fired when a callback has panicked still has its id
\* passed to fn (unless it is stopped or the scheduler is stopped).
C14_PanicKeepsDispatching ==
    \A t \in 1..MaxTimers :
        (~Alive /\ St(t) \in {"armed", "firing"})
           ~> (St(t) = "stopped" \/ Invocations(t) = 1 \/ doneClosed)

\* ---- properties of the conversation store ----
\* no UserData object is referred to both by the caller's map and by the store
\* or a handler
NoSharedRecord ==
    \A u \in Users :
        cmap[u] # 0 => cmap[u] # ptr /\ \A v \in Users : cmap[u] # states[v]

\* C15: read-your-writes. After SetState(u, s) GetState(u) returns (s, true);
\* after SetUserData(u, r) the record of u is r with its fields; for a user
\* with no record GetState returns (StateNone, false) and GetUserData returns
\* (nil, false) and neither makes a record.
C15_ReadYourWrites ==
    [][\A u \in Users :
          /\ \A s \in UserStates :
                SetState(u, s) => GetStateResult(u)' = <<s, TRUE>>
          /\ SetUserData(u)
                => /\ states'[u] # 0 /\ states'[u] = ptr'
                   /\ heap'[states'[u]].State = heap[ptr].State
                   /\ heap'[states'[u]].Plans = heap[ptr].Plans
                   /\ GetStateResult(u)' = <<heap[ptr].State, TRUE>>
          /\ GetUserData(u)
                => /\ StoreView' = StoreView
                   /\ IF states[u] = 0 THEN ptr' = 0
                      ELSE ptr' = states'[u] /\ heap'[ptr'] = heap[states[u]]
          /\ states[u] = 0 => GetStateResult(u) = <<0, FALSE>>]_vars

\* the age of u's record: now.Sub(userData.LastUpdated)
Age(u) == now - heap[states[u]].LastUpdated

\* C21: CleanupOldStates(maxAge) deletes exactly the records with
\* now - LastUpdated > maxAge and leaves every other record unchanged, one
\* whose age equals maxAge included.
C21_ExpiryByAge ==
    [][\A a \in Ages :
          CleanupOldStates(a)
              => \A u \in Users :
                    StoreView'[u] = IF states[u] # 0 /\ Age(u) > a
                                    THEN <<>> ELSE StoreView[u]]_vars

\* C21 witness: a sweep with a maxAge that is not zero has just removed a
\* record and left one whose age equals maxAge
C21_Witness ==
    /\ ret.op = "CleanupOldStates" /\ ret.ok
    /\ ret.at = now /\ ret.maxAge = MaxAge /\ MaxAge > 0
    /\ \E u, v \in Users :
          /\ states[u] # 0 /\ Age(u) = MaxAge
          /\ states[v] = 0

\* C22: every mutation of a stored record refreshes its LastUpdated: whenever
\* the record of a user appears or changes in the store, by SetState, by
\* SetUserData or by a field change through the pointer GetUserData returned,
\* its LastUpdated is the current time.
C22_LastUpdatedRefreshed ==
    [][\A u \in Users :
          (states'[u] # 0 /\ StoreView'[u] # StoreView[u])
              => heap'[states'[u]].LastUpdated = now']_vars

\* C23: ClearState(u) deletes the record of u: afterwards GetState(u) returns
\* (StateNone, false) and GetUserData(u) finds nothing; the records of the
\* other users are unchanged; for a user with no record nothing changes.
C23_ClearState ==
    [][\A u \in Users :
          ClearState(u)
              => /\ states'[u] = 0
                 /\ GetStateResult(u)' = <<0, FALSE>>
                 /\ \A v \in Users \ {u} : StoreView'[v] = StoreView[v]
                 /\ states[u] = 0 => StoreView' = StoreView]_vars

\* C23 witness: the record the handler points to was stamped by the store at
\* the last instant, so no sweep can have expired it, and it is in the store
\* no more: it was cleared, while another user still has a record
C23_Witness ==
    /\ ptr # 0
    /\ heap[ptr].LastUpdated = MaxStoreTime
    /\ \A u \in Users : states[u] # ptr
    /\ \E u, v \in Users :
          /\ GetStateResult(u) = <<0, FALSE>>
          /\ states[v] # 0

Lifecycle == <<heap, states, ticker, tickPending, sweeper, sweepAge, isStopped>>

\* C25: Stop is idempotent: a call on a stopped store, whether or not Start
\* was ever called, does not panic and changes neither the life cycle of the
\* store nor its records; a stopped store stays stopped.
C25_StopIdempotent ==
    [][/\ (SmStop /\ isStopped) => (UNCHANGED Lifecycle /\ ~panicked')
       /\ isStopped => isStopped']_vars

\* C25 witness: Stop was called on a store already stopped that had been
\* started and still holds a record
C25_Witness ==
    /\ ret = Result("Stop", FALSE)
    /\ isStopped
    /\ ticker = "stopped"
    /\ \E u \in Users : states[u] # 0

\* C26: once Stop has returned the background sweep deletes nothing: every
\* record present in the stopped store is still there after any step of the
\* sweep goroutine, so a snapshot of the stopped store misses none of them.
C26_NoSweepAfterStop ==
    [][(isStopped /\ SweepClean)
          => \A u \in Users : states[u] # 0 => states'[u] # 0]_vars

\* C27: writes to conversation state are mutually exclusive with every other
\* read and write: while the sweep holds sm.mutex no other goroutine changes
\* the record map or a field of a stored record.
C27_WritesExclusive ==
    [][(sweeper = "locked" /\ sweeper' = "locked")
          => StoreView' = StoreView]_vars

\* listener i was a key of sm.subs when event e was published
MemberAt(i, e) ==
    subs[i].since < e /\ (subs[i].member \/ e <= subs[i].till)

\* the loop of the call that publishes e has still to visit listener i
Pending(i, e) == \E p \in Pubs : pubs[p].ev = e /\ i \in pubs[p].todo

\* how many times event e was sent to the channel of listener i
Sent(i, e) == Cardinality({k \in 1..Len(subs[i].got) : subs[i].got[k] = e})

\* the channel of listener i has room
HasRoom(i) == Len(subs[i].q) < subs[i].buf

\* C28: Notify delivers the event to every listener subscribed at the time of
\* the call whose channel has room: once the loop has visited a listener the
\* event was sent to it exactly once, or dropped because its channel was
\* full; a listener that was not subscribed gets nothing.
C28_PublishDelivers ==
    /\ [](\A i \in 1..Len(subs), e \in 1..nextEv :
             IF MemberAt(i, e)
             THEN IF Pending(i, e)
                  THEN Sent(i, e) = 0 /\ e \notin subs[i].lost
                  ELSE (Sent(i, e) = 1) # (e \in subs[i].lost)
             ELSE Sent(i, e) = 0 /\ e \notin subs[i].lost /\ ~Pending(i, e))
    /\ [][\A p \in Pubs, i \in SubIds :
             NotifySend(p, i)
                 => IF HasRoom(i)
                    THEN /\ subs'[i].q = Append(subs[i].q, pubs[p].ev)
                         /\ subs'[i].lost = subs[i].lost
                    ELSE subs'[i].got = subs[i].got]_vars

\* C28 witness: one Notify is over and two listeners whose channels had room
\* both hold its event, and nothing was dropped
C28_Witness ==
    /\ NoReader
    /\ nextEv = 1
    /\ Len(subs) = 2
    /\ \A i \in 1..2 : subs[i].q = <<1>> /\ subs[i].lost = {} /\ subs[i].member

\* C29: Notify never blocks and never fails because of a slow consumer: a
\* full channel makes the event be dropped for that listener only, leaves the
\* channel's content as it was and lets the loop go on to the listeners it
\* has not visited yet; every call of Notify comes to its end, with no panic.
C29_NonBlockingPublish ==
    /\ [][\A p \in Pubs, i \in SubIds :
             (NotifySend(p, i) /\ ~HasRoom(i))
                 => /\ subs'[i].q = subs[i].q
                    /\ pubs[p].ev \in subs'[i].lost
                    /\ \A j \in 1..Len(subs) : j # i => subs'[j] = subs[j]
                    /\ \A j \in pubs[p].todo \ {i} : Pending(j, pubs[p].ev)'
                    /\ ~panicked']_vars
    /\ \A p \in Pubs : (pubs[p].ev # 0) ~> (pubs[p].ev = 0)
    /\ [](\A e \in 1..nextEv, i \in 1..Len(subs), j \in 1..Len(subs) :
             (e \in subs[i].lost /\ MemberAt(j, e) /\ ~Pending(j, e))
                 => (Sent(j, e) = 1 \/ e \in subs[j].lost))

\* C29 witness: a call of Notify is over; its event was dropped for a
\* listener whose channel was full and is in the channel of the other one
C29_Witness ==
    /\ NoReader
    /\ \E i, j \in 1..Len(subs), e \in 1..nextEv :
          /\ i # j
          /\ e \in subs[i].lost
          /\ Len(subs[i].q) = subs[i].buf
          /\ Sent(j, e) = 1
          /\ e \in {subs[j].q[k] : k \in 1..Len(subs[j].q)}

C31_UnsubscribeIdempotent ==
    /\ [][\A i \in 1..Len(subs) :
             (Unsubscribe(i) /\ (subs[i].unsub \/ ~subs[i].member))
                 => /\ Members' = Members
                    /\ \A j \in 1..Len(subs) :
                          /\ subs'[j].closes = subs[j].closes
                          /\ subs'[j].open = subs[j].open
                          /\ subs'[j].q = subs[j].q
                    /\ ~panicked']_vars
    /\ [](\A i \in 1..Len(subs) :
             /\ subs[i].closes = (IF subs[i].open THEN 0 ELSE 1)
             /\ subs[i].unsub => ~subs[i].open)
    /\ []~panicked

\* C31 witness: the closure of the first listener was called twice; the
\* second listener was removed later, after an event, and its closure was
\* called; each channel was closed once
C31_Witness ==
    /\ Len(subs) = 2
    /\ subs[1].calls = 2 /\ subs[1].closes = 1 /\ subs[1].till = 0
    /\ subs[2].calls = 1 /\ subs[2].closes = 1 /\ subs[2].till = 1
    /\ nextEv = 1

\* C32: Close closes the channel of every listener subscribed at that time
\* and leaves sm.subs empty; a Notify after Close sends nothing to any of them
\* and does not fail.
C32_Shutdown ==
    /\ [][HubClose
             => /\ Members' = {}
                /\ \A i \in 1..Len(subs) :
                      IF subs[i].member
                      THEN ~subs'[i].open /\ subs'[i].q = subs[i].q
                      ELSE subs'[i] = subs[i]]_vars
    /\ [][\A i \in 1..Len(subs) :
             ~subs[i].member => subs'[i].got = subs[i].got]_vars
    /\ [](Members = {} => NoReader)
    /\ [](panicked = FALSE)

\* C32 witness: two listeners were subscribed, Close removed both, and a
\* Notify after Close is over and has sent nothing to either of them
C32_Witness ==
    /\ Len(subs) = 2
    /\ \A i \in 1..2 : /\ ~subs[i].member /\ ~subs[i].open /\ ~subs[i].unsub
                       /\ subs[i].since = 0 /\ subs[i].till = 1
                       /\ subs[i].got = <<1>>
    /\ nextEv = 2
    /\ NoReader

\* C33: no event is ever sent to a closed channel, in any interleaving of
\* Notify, Subscribe, unsubscribe and Close: a channel is open exactly when
\* its listener is a key of sm.subs, and the loop of Notify only meets keys.
C33_NoSendOnClosed ==
    /\ [](\A i \in 1..Len(subs) : subs[i].member <=> subs[i].open)
    /\ [](\A p \in Pubs : pubs[p].todo \subseteq Members)
    /\ [][\A p \in Pubs, i \in SubIds :
             NotifySend(p, i) => (subs[i].open /\ panicked' = panicked)]_vars

\* C33 witness: one listener was closed with an event still in its channel;
\* the other one has got an event published after that, and a further call of
\* Notify is in progress and about to send to it
C33_Witness ==
    \E i, j \in 1..Len(subs), p \in Pubs :
        /\ ~subs[i].open /\ subs[i].q # <<>>
        /\ subs[j].open
        /\ \E e \in 1..nextEv : e > subs[i].till /\ Sent(j, e) = 1
        /\ pubs[p].ev # 0 /\ j \in pubs[p].todo

\* C34: a timer that Schedule registered under id while fn(id) was being
\* dispatched (the dispatched timer was neither armed nor waiting to be
\* delivered when Schedule ran) is still registered under id when the dispatch
\* loop has finished that callback.
C34_RescheduleSurvivesDispatch ==
    [][\A l \in Loops :
          (/\ RunDelete(l)
           /\ ~entriesNil
           /\ timers[cur[l]].sup = "none"
           /\ entries[JobIdOf(cur[l])] \notin {0, cur[l]})
             => entries'[JobIdOf(cur[l])] = entries[JobIdOf(cur[l])]]_vars

\* C35: once SaveFromManager has exported the snapshot that is persisted,
\* nothing writes the store any more: the snapshot equals the contents of the
\* store from then on, and so at the end of main.
C35_SnapshotIsFinal ==
    (Saved /\ ret.ok) => CallerView = StoreView

\* C36: in main ImportStates runs before Start and ExportStates after Stop,
\* and neither returns its life-cycle error.
C36_NoLifecycleError ==
    /\ [](ret.op \in {"ImportStates", "ExportStates"} => ret.ok)
    /\ [][/\ LoadToManager => ticker = "nil" /\ ~isStopped
          /\ SaveFromManager => isStopped]_vars

\* C36 witness: main has loaded a record, started and stopped the store, the
\* sweep goroutine has ended, and the store was saved
C36_Witness ==
    /\ Saved
    /\ ret.ok
    /\ sweeper = "exited"
    /\ \E u \in Users : cmap[u] # 0

\* C37: once ToxicityChecker.Stop has closed quit and the queue,
\* processNewWishes ends, and it never hands the nil it received from the
\* closed queue to checkWishToxicity as a wish.
C37_DrainEndsCleanly ==
    /\ [](tc.pc = "checking" => tc.wish # 0)
    /\ (tc.stop = "done") ~> (tc.pc \in {"off", "exited"})

\* C38: once Stop has returned (and no Schedule was called after it), no
\* timer is armed any more, and no fired timer is left waiting to enqueue its
\* id with the buffer full and every dispatch loop gone, which nothing can
\* end.
C38_StopReleasesTimers ==
    (stopPc = "stopped" /\ ~panicked) =>
        /\ \A t \in TimerIds : ~Armed(t)
        /\ ~(/\ \A l \in Loops : pc[l] = "exited"
             /\ Len(jobCh) >= cap
             /\ \E t \in TimerIds : timers[t].st = "firing")

\* C39: a sweep deletes a record only if its LastUpdated, at the step of the
\* deletion, is more than maxAge before the current time; SetState and
\* SetUserData never run while the sweep holds the lock, and the record they
\* write is in the store with the current time when they return.
C39_SweepAtomic ==
    /\ [][SweepClean =>
            \A u \in Users :
               (states[u] # 0 /\ states'[u] = 0) => Age(u) > sweepAge]_vars
    /\ [][\A u \in Users :
            ((\E s \in UserStates : SetState(u, s)) \/ SetUserData(u))
               => /\ sweeper # "locked"
                  /\ states'[u] # 0
                  /\ heap'[states'[u]].LastUpdated = now]_vars

\* C39 witness: the record a handler holds a pointer to was removed by a
\* sweep, the only step that removes a key, and a record written at the
\* current time is in the store
C39_Witness ==
    /\ sweeper = "run"
    /\ ptr # 0
    /\ \A u \in Users : states[u] # ptr
    /\ now - heap[ptr].LastUpdated > MaxAge
    /\ \E v \in Users : states[v] # 0 /\ heap[states[v]].LastUpdated = now

\* C40 as stated: for every cleanupInterval, zero and negative ones included,
\* two consecutive background sweeps are never less than one hour apart.
C40_SweepsHourApart ==
    [][(TkSweep /\ tk.lastSweep >= 0)
          => tk.clock - tk.lastSweep >= Hour]_vars

\* C40 amended: for every cleanupInterval, zero and negative ones included,
\* Start makes a ticker of period max(cleanupInterval, 1 hour) without
\* panicking, the ticks it puts into its channel are scheduled never less
\* than one hour apart, and every background sweep takes one tick and happens
\* at or after the time of that tick.
C40_TicksHourApart ==
    /\ [](tk.st # "panicked")
    /\ [](tk.st = "on" => tk.period = max(tk.interval, Hour))
    /\ [](tk.sweeps <= tk.ticks)
    /\ [][TkSweep => (tk.lastTick >= 0 /\ tk.clock >= tk.lastTick)]_vars
    /\ [][(TkTick /\ tk.lastTick >= 0 /\ tk'.lastTick # tk.lastTick)
            => tk'.lastTick - tk.lastTick >= Hour]_vars

\* C40 witness: with a cleanupInterval that is not positive, two ticks have
\* come and the sweeps of both are done
C40_Witness ==
    /\ tk.interval <= 0
    /\ tk.ticks >= 2
    /\ tk.sweeps = tk.ticks

\* C15 witness: one user has a state set by SetState, another has the record
\* a handler made and stored with SetUserData
C15_Witness ==
    \E u, v \in Users :
        /\ u # v
        /\ GetStateResult(u) = <<MaxState, TRUE>>
        /\ heap[states[u]].Plans = 0
        /\ states[v] # 0 /\ states[v] = ptr
        /\ heap[ptr].Plans = MaxPlans

\* C16: ImportStates called before Start succeeds and every imported record
\* is then in the store; called after Start and before Stop it returns an
\* error and leaves every record of the store unchanged.
C16_ImportLifecycle ==
    [][(ImportStates /\ ~isStopped)
          => IF sweeper = "off"
             THEN /\ ret'.ok
                  /\ \A u \in Users :
                        cmap[u] # 0 => /\ states'[u] # 0
                                       /\ heap'[states'[u]] = heap[cmap[u]]
             ELSE /\ ~ret'.ok
                  /\ StoreView' = StoreView]_vars

\* C16 witness: after Start an import was refused and the store still has a
\* record that the caller's map does not have
C16_Witness ==
    /\ ret = Result("ImportStates", FALSE)
    /\ sweeper = "run" /\ ~isStopped
    /\ \E u \in Users : states[u] # 0 /\ cmap[u] = 0
    /\ \E u \in Users : cmap[u] # 0

\* C17: ExportStates returns an error and no map as long as Stop was not
\* called, whether Start was called or not; once Stop was called it succeeds
\* and returns a snapshot of all records.
C17_ExportLifecycle ==
    [][ExportStates
          => IF isStopped
             THEN ret'.ok /\ CallerView' = StoreView /\ StoreView' = StoreView
             ELSE ~ret'.ok /\ UNCHANGED <<heap, states, cmap, cmapKind>>]_vars

\* C17 witness: Stop was called on a store that was never started and the
\* export of its records succeeded
C17_Witness ==
    /\ ret = Result("ExportStates", TRUE)
    /\ isStopped /\ sweeper = "off"
    /\ cmapKind = "exported"
    /\ \E u \in Users : states[u] # 0

\* C18: the map returned by ExportStates shares no record with the store:
\* while the caller holds it, no step that changes the map, its entries or its
\* records (what the caller's map says) changes what the store returns.
C18_ExportIsolation ==
    /\ [](cmapKind \in {"exported", "exported_changed"} => NoSharedRecord)
    /\ [][(/\ cmapKind \in {"exported", "exported_changed"}
           /\ cmapKind' = "exported_changed"
           /\ CallerView' # CallerView)
             => StoreView' = StoreView]_vars

\* C18 witness: the caller has deleted from the exported map an entry that
\* the store still has
C18_Witness ==
    /\ cmapKind = "exported_changed"
    /\ \E u \in Users :
          /\ cmap[u] = 0
          /\ states[u] # 0 /\ heap[states[u]].Plans = MaxPlans

C20_ImportReplaces ==
    /\ [](cmapKind = "imported" => StoreView = CallerView)
    /\ [][((ImportStates /\ ret'.ok) => StoreView' = CallerView)
          /\ ((ExportStates /\ cmapKind = "imported" /\ ret'.ok)
                => CallerView' = CallerView)]_vars

\* C20 witness: the map that was imported has come back from ExportStates,
\* with one user in it and the other not
C20_Witness ==
    /\ ret = Result("ExportStates", TRUE)
    /\ cmapKind = "exported"
    /\ \E u, v \in Users :
          /\ states[u] # 0 /\ heap[states[u]].Plans = MaxPlans
          /\ cmap[u] # 0 /\ heap[cmap[u]] = heap[states[u]]
          /\ states[v] = 0 /\ cmap[v] = 0

====
